---- MODULE Spec2Model ----
(***************************************************************************)
(* Model of the useObjectDetection hook (hooks/useObjectDetection.ts):     *)
(* the session lifecycle (startDetection / stopDetection), the frame timer,*)
(* the per-frame dispatch of processFrame over its three backends, the     *)
(* streaming channel and the model load effect.                            *)
(*                                                                         *)
(* React semantics that the model keeps:                                   *)
(*  - useState values (detections, isProcessing, isModelLoaded) are read   *)
(*    by a callback from the render that created the callback.  The timer  *)
(*    callback armed by startDetection calls the processFrame that the     *)
(*    invoked startDetection closed over, so it reads isProcessing and     *)
(*    isModelLoaded as they were when startDetection was called.           *)
(*  - useRef values (sessionRef, wsRef, intervalRef, streamRef) are read   *)
(*    live.                                                                *)
(*  - every await is a suspension point: other handlers run in between.    *)
(***************************************************************************)
EXTENDS Integers, FiniteSets, Sequences, TLC

\* Bounds of the model.
MaxStarts == 2      \* startDetection calls with a stream
MaxFrames == 2      \* timer callbacks that run processFrame
MaxDet == 1         \* largest detection list a backend returns

StartIds == 1..MaxStarts
FrameIds == 1..MaxFrames

Modes == {"wasm", "server", "mock"}

VARIABLES
    mode,           \* the hook's argument
    detections,     \* useState: the published batch
    isProcessing,   \* useState
    isModelLoaded,  \* useState
    sessionRef,     \* useRef: "null" or "session"
    streamRef,      \* useRef: "null" or "stream"
    wsRef,          \* useRef: 0 (null) or the id of a channel
    intervalRef,    \* useRef: 0 (null) or the id of a timer
    loadPc,         \* position of the loadModel call of the effect
    starts,         \* startDetection calls: position and closure
    timers,         \* window.setInterval timers, one per start
    sockets,        \* WebSocket readyState, one per start
    frames,         \* processFrame calls: position and what they did
    pipe,           \* one call looked at on its own: a frame's pass through
                    \* preprocessImage, the backend and
                    \* postprocessDetections, or a startDetection call
    worker          \* the detection worker: its model instance, its
                    \* requests and what it has posted

vars == <<mode, detections, isProcessing, isModelLoaded, sessionRef, streamRef,
          wsRef, intervalRef, loadPc, starts, timers, sockets, frames, pipe,
          worker>>

\* the hook's own state
session == <<mode, detections, isProcessing, isModelLoaded, sessionRef, streamRef,
             wsRef, intervalRef, loadPc, starts, timers, sockets, frames>>

\* ---------------------------------------------------------------- batches
\* A batch is named by what produced it and how many detections it holds.
EmptyBatch == [kind |-> "empty", id |-> 0, n |-> 0]

\* generateMockDetections: always two detections; id names the caller, the
\* random jitter makes every call's batch its own.
generateMockDetections(id) == [kind |-> "mock", id |-> id, n |-> 2]

LocalBatch(f, n) == [kind |-> "local", id |-> f, n |-> n]
HttpBatch(f, n) == [kind |-> "http", id |-> f, n |-> n]
WsBatch(s, n) == [kind |-> "ws", id |-> s, n |-> n]

IsEmpty(b) == b.n = 0

\* ------------------------------------------------------------- records
IdleStart == [pc |-> "idle", capProcessing |-> FALSE, capLoaded |-> FALSE]
NoFrame == [pc |-> "none", out |-> "none", timer |-> 0, http |-> 0]
NoPipe == [pc |-> "none"]
NoWorker == [pc |-> "none"]

\* the first unused id
NextStart == CHOOSE s \in StartIds :
    /\ starts[s].pc = "idle"
    /\ \A r \in StartIds : r < s => starts[r].pc # "idle"
NextFrame == CHOOSE f \in FrameIds :
    /\ frames[f].pc = "none"
    /\ \A g \in FrameIds : g < f => frames[g].pc # "none"

\* WebSocket.close(): a connecting or open channel starts closing.
WsClose(socks, c) ==
    IF c # 0 /\ socks[c] \in {"CONNECTING", "OPEN"}
    THEN [socks EXCEPT ![c] = "CLOSING"]
    ELSE socks

\* ---------------------------------------------------------------- Init
Init ==
    /\ mode \in Modes
    /\ detections = EmptyBatch
    /\ isProcessing = FALSE
    /\ isModelLoaded = FALSE
    /\ sessionRef = "null"
    /\ streamRef = "null"
    /\ wsRef = 0
    /\ intervalRef = 0
    /\ loadPc = IF mode = "wasm" THEN "loading" ELSE "none"
    /\ starts = [s \in StartIds |-> IdleStart]
    /\ timers = [s \in StartIds |-> "none"]
    /\ sockets = [s \in StartIds |-> "none"]
    /\ frames = [f \in FrameIds |-> NoFrame]
    /\ pipe = NoPipe
    /\ worker = NoWorker

\* ------------------------------------------------- model load effect
\* InferenceSession.create resolved.
LoadModelOk ==
    /\ loadPc = "loading"
    /\ loadPc' = "loaded"
    /\ sessionRef' = "session"
    /\ isModelLoaded' = TRUE
    /\ UNCHANGED <<worker, pipe, mode, detections, isProcessing, streamRef, wsRef,
                   intervalRef, starts, timers, sockets, frames>>

\* InferenceSession.create rejected.
LoadModelFail ==
    /\ loadPc = "loading"
    /\ loadPc' = "failed"
    /\ isModelLoaded' = FALSE
    /\ UNCHANGED <<worker, pipe, mode, detections, isProcessing, sessionRef, streamRef,
                   wsRef, intervalRef, starts, timers, sockets, frames>>

\* ---------------------------------------------------- startDetection
\* Variant of StartBody without the test of the stream: a null stream is
\* stored and the session is marked as processing.
StartBody_NoNullTest(stream) ==
    /\ \E s \in StartIds : starts[s].pc = "idle"
    /\ streamRef' = stream
    /\ isProcessing' = TRUE
    /\ starts' = [starts EXCEPT ![NextStart] =
           [pc |-> "awaitMeta",
            capProcessing |-> isProcessing,
            capLoaded |-> isModelLoaded]]
    /\ UNCHANGED <<mode, detections, isModelLoaded, sessionRef, wsRef,
                   intervalRef, loadPc, timers, sockets, frames>>

\* The synchronous part, up to the wait for the video metadata: what it
\* does to the hook's state.
StartBody(stream) ==
    IF stream = "null"
    THEN UNCHANGED session
    ELSE /\ \E s \in StartIds : starts[s].pc = "idle"
         /\ streamRef' = stream
         /\ isProcessing' = TRUE
         /\ starts' = [starts EXCEPT ![NextStart] =
                [pc |-> "awaitMeta",
                 capProcessing |-> isProcessing,
                 capLoaded |-> isModelLoaded]]
         /\ UNCHANGED <<mode, detections, isModelLoaded, sessionRef, wsRef,
                        intervalRef, loadPc, timers, sockets, frames>>

StartDetection(stream) == StartBody(stream) /\ UNCHANGED <<worker, pipe>>

\* The rest of startDetection, once onloadedmetadata has fired.
\* wsOk: whether new WebSocket(wsUrl) returned or threw.
MetadataLoaded(s, wsOk) ==
    /\ starts[s].pc = "awaitMeta"
    /\ starts' = [starts EXCEPT ![s].pc = "done"]
    /\ IF mode = "server"
       THEN /\ sockets' = IF wsOk
                          THEN [WsClose(sockets, wsRef) EXCEPT ![s] = "CONNECTING"]
                          ELSE WsClose(sockets, wsRef)
            /\ wsRef' = IF wsOk THEN s ELSE 0
       ELSE /\ wsOk
            /\ UNCHANGED <<sockets, wsRef>>
    /\ detections' = generateMockDetections(0 - s)
    /\ timers' = [timers EXCEPT ![s] = "armed"]
    /\ intervalRef' = s
    /\ UNCHANGED <<worker, pipe, mode, isProcessing, isModelLoaded, sessionRef, streamRef,
                   loadPc, frames>>

\* Variant of StopDetection that nulls intervalRef without clearInterval.
StopDetection_KeepTimer ==
    /\ isProcessing' = FALSE
    /\ detections' = EmptyBatch
    /\ streamRef' = "null"
    /\ timers' = timers
    /\ intervalRef' = 0
    /\ sockets' = WsClose(sockets, wsRef)
    /\ wsRef' = 0
    /\ UNCHANGED <<worker, pipe, mode, isModelLoaded, sessionRef, loadPc, starts, frames>>

\* Variant of StopDetection that also releases the model.
StopDetection_ResetModel ==
    /\ isProcessing' = FALSE
    /\ detections' = EmptyBatch
    /\ streamRef' = "null"
    /\ timers' = IF intervalRef # 0
                 THEN [timers EXCEPT ![intervalRef] = "cleared"]
                 ELSE timers
    /\ intervalRef' = 0
    /\ sockets' = WsClose(sockets, wsRef)
    /\ wsRef' = 0
    /\ sessionRef' = "null"
    /\ isModelLoaded' = FALSE
    /\ UNCHANGED <<worker, pipe, mode, loadPc, starts, frames>>

\* ----------------------------------------------------- stopDetection
StopDetection ==
    /\ isProcessing' = FALSE
    /\ detections' = EmptyBatch
    /\ streamRef' = "null"
    /\ timers' = IF intervalRef # 0
                 THEN [timers EXCEPT ![intervalRef] = "cleared"]
                 ELSE timers
    /\ intervalRef' = 0
    /\ sockets' = WsClose(sockets, wsRef)
    /\ wsRef' = 0
    /\ UNCHANGED <<worker, pipe, mode, isModelLoaded, sessionRef, loadPc, starts, frames>>

\* ------------------------------------------------------- processFrame
\* Variant of Tick with a busy guard: a cycle is dropped while an earlier
\* call is outstanding.
Tick_Busy(s, ctxOk) ==
    /\ timers[s] = "armed"
    /\ \E f \in FrameIds : frames[f].pc = "none"
    /\ LET f == NextFrame
           fr == [NoFrame EXCEPT !.timer = s]
           busy == \E g \in FrameIds : frames[g].pc \notin {"none", "done"}
       IN IF ~starts[s].capProcessing \/ busy
          THEN /\ frames' = [frames EXCEPT ![f] =
                      [fr EXCEPT !.pc = "done", !.out = "skip"]]
               /\ UNCHANGED detections
          ELSE IF ~ctxOk
          THEN /\ frames' = [frames EXCEPT ![f] =
                      [fr EXCEPT !.pc = "done", !.out = "noctx"]]
               /\ UNCHANGED detections
          ELSE IF mode = "wasm" /\ sessionRef # "null" /\ starts[s].capLoaded
          THEN /\ frames' = [frames EXCEPT ![f] = [fr EXCEPT !.pc = "awaitRun"]]
               /\ UNCHANGED detections
          ELSE IF mode = "server"
          THEN /\ frames' = [frames EXCEPT ![f] = [fr EXCEPT !.pc = "awaitBlob"]]
               /\ UNCHANGED detections
          ELSE /\ frames' = [frames EXCEPT ![f] =
                      [fr EXCEPT !.pc = "done", !.out = "mock"]]
               /\ detections' = generateMockDetections(f)
    /\ UNCHANGED <<worker, pipe, mode, isProcessing, isModelLoaded, sessionRef, streamRef,
                   wsRef, intervalRef, loadPc, starts, timers, sockets>>

\* A timer callback: processFrame(video) up to its first await.  The
\* callback is the one startDetection call s closed over.
\* ctxOk: whether canvas.getContext('2d') returned a context.
Tick(s, ctxOk) ==
    /\ timers[s] = "armed"
    /\ \E f \in FrameIds : frames[f].pc = "none"
    /\ LET f == NextFrame
           fr == [NoFrame EXCEPT !.timer = s]
       IN IF ~starts[s].capProcessing
          THEN /\ frames' = [frames EXCEPT ![f] =
                      [fr EXCEPT !.pc = "done", !.out = "skip"]]
               /\ UNCHANGED detections
          ELSE IF ~ctxOk
          THEN /\ frames' = [frames EXCEPT ![f] =
                      [fr EXCEPT !.pc = "done", !.out = "noctx"]]
               /\ UNCHANGED detections
          ELSE IF mode = "wasm" /\ sessionRef # "null" /\ starts[s].capLoaded
          THEN /\ frames' = [frames EXCEPT ![f] = [fr EXCEPT !.pc = "awaitRun"]]
               /\ UNCHANGED detections
          ELSE IF mode = "server"
          THEN /\ frames' = [frames EXCEPT ![f] = [fr EXCEPT !.pc = "awaitBlob"]]
               /\ UNCHANGED detections
          ELSE /\ frames' = [frames EXCEPT ![f] =
                      [fr EXCEPT !.pc = "done", !.out = "mock"]]
               /\ detections' = generateMockDetections(f)
    /\ UNCHANGED <<worker, pipe, mode, isProcessing, isModelLoaded, sessionRef, streamRef,
                   wsRef, intervalRef, loadPc, starts, timers, sockets>>

\* Variant of RunResolves with a frame_id guard: a result older than the
\* published local batch is dropped.
RunResolves_DropStale(f, n) ==
    /\ frames[f].pc = "awaitRun"
    /\ frames' = [frames EXCEPT ![f].pc = "done", ![f].out = "real"]
    /\ detections' = IF detections.kind = "local" /\ detections.id > f
                     THEN detections
                     ELSE LocalBatch(f, n)
    /\ UNCHANGED <<worker, pipe, mode, isProcessing, isModelLoaded, sessionRef, streamRef,
                   wsRef, intervalRef, loadPc, starts, timers, sockets>>

\* session.run resolved and postprocessDetections returned n detections.
RunResolves(f, n) ==
    /\ frames[f].pc = "awaitRun"
    /\ frames' = [frames EXCEPT ![f].pc = "done", ![f].out = "real"]
    /\ detections' = LocalBatch(f, n)
    /\ UNCHANGED <<worker, pipe, mode, isProcessing, isModelLoaded, sessionRef, streamRef,
                   wsRef, intervalRef, loadPc, starts, timers, sockets>>

\* Variant of RunRejects in which a failed call drops the model handle.
RunRejects_Sticky(f) ==
    /\ frames[f].pc = "awaitRun"
    /\ frames' = [frames EXCEPT ![f].pc = "done", ![f].out = "mock"]
    /\ detections' = generateMockDetections(f)
    /\ sessionRef' = "null"
    /\ UNCHANGED <<worker, pipe, mode, isProcessing, isModelLoaded, streamRef,
                   wsRef, intervalRef, loadPc, starts, timers, sockets>>

\* session.run (or the decoding of its output) threw: the catch block.
RunRejects(f) ==
    /\ frames[f].pc = "awaitRun"
    /\ frames' = [frames EXCEPT ![f].pc = "done", ![f].out = "mock"]
    /\ detections' = generateMockDetections(f)
    /\ UNCHANGED <<worker, pipe, mode, isProcessing, isModelLoaded, sessionRef, streamRef,
                   wsRef, intervalRef, loadPc, starts, timers, sockets>>

\* Variant of BlobReady that sends on any referenced channel, whatever its
\* readyState, and so never falls back while wsRef is set.
BlobReady_NoFallback(f, blobOk, sendOk) ==
    /\ frames[f].pc = "awaitBlob"
    /\ frames' = [frames EXCEPT ![f] =
          IF ~blobOk
          THEN [@ EXCEPT !.pc = "done", !.out = "noblob"]
          ELSE IF wsRef # 0
          THEN [@ EXCEPT !.pc = "done", !.out = "sent"]
          ELSE [@ EXCEPT !.pc = "awaitFetch", !.http = @ + 1]]
    /\ UNCHANGED <<worker, pipe, mode, detections, isProcessing, isModelLoaded, sessionRef,
                   streamRef, wsRef, intervalRef, loadPc, starts, timers,
                   sockets>>

\* Variant of BlobReady without the return after ws.send: the frame is
\* also posted.
BlobReady_NoReturn(f, blobOk, sendOk) ==
    /\ frames[f].pc = "awaitBlob"
    /\ frames' = [frames EXCEPT ![f] =
          IF ~blobOk
          THEN [@ EXCEPT !.pc = "done", !.out = "noblob"]
          ELSE IF wsRef # 0 /\ sockets[wsRef] = "OPEN" /\ sendOk
          THEN [@ EXCEPT !.pc = "awaitFetch", !.out = "sent", !.http = @ + 1]
          ELSE [@ EXCEPT !.pc = "awaitFetch", !.http = @ + 1]]
    /\ UNCHANGED <<worker, pipe, mode, detections, isProcessing, isModelLoaded, sessionRef,
                   streamRef, wsRef, intervalRef, loadPc, starts, timers,
                   sockets>>

\* Variant of BlobReady that reconnects: a frame that finds its channel
\* closed opens it again besides making the request.
BlobReady_Reconnect(f, blobOk, sendOk) ==
    /\ frames[f].pc = "awaitBlob"
    /\ frames' = [frames EXCEPT ![f] =
          IF ~blobOk
          THEN [@ EXCEPT !.pc = "done", !.out = "noblob"]
          ELSE IF wsRef # 0 /\ sockets[wsRef] = "OPEN" /\ sendOk
          THEN [@ EXCEPT !.pc = "done", !.out = "sent"]
          ELSE [@ EXCEPT !.pc = "awaitFetch", !.http = @ + 1]]
    /\ IF blobOk /\ sockets[frames[f].timer] = "CLOSED"
       THEN /\ sockets' = [sockets EXCEPT ![frames[f].timer] = "CONNECTING"]
            /\ wsRef' = frames[f].timer
       ELSE UNCHANGED <<sockets, wsRef>>
    /\ UNCHANGED <<worker, pipe, mode, detections, isProcessing, isModelLoaded, sessionRef,
                   streamRef, intervalRef, loadPc, starts, timers>>

\* canvas.toBlob called back: the channel is tried first, then the request.
\* blobOk: a JPEG blob was produced; sendOk: ws.send returned.
BlobReady(f, blobOk, sendOk) ==
    /\ frames[f].pc = "awaitBlob"
    /\ frames' = [frames EXCEPT ![f] =
          IF ~blobOk
          THEN [@ EXCEPT !.pc = "done", !.out = "noblob"]
          ELSE IF wsRef # 0 /\ sockets[wsRef] = "OPEN" /\ sendOk
          THEN [@ EXCEPT !.pc = "done", !.out = "sent"]
          ELSE [@ EXCEPT !.pc = "awaitFetch", !.http = @ + 1]]
    /\ UNCHANGED <<worker, pipe, mode, detections, isProcessing, isModelLoaded, sessionRef,
                   streamRef, wsRef, intervalRef, loadPc, starts, timers,
                   sockets>>

\* Variant of FetchSettles in which a failed request ends the capture loop.
FetchSettles_StopsLoop(f, res) ==
    /\ frames[f].pc = "awaitFetch"
    /\ IF res = "ok"
       THEN /\ frames' = [frames EXCEPT ![f].pc = "awaitJson"]
            /\ UNCHANGED <<detections, timers>>
       ELSE /\ frames' = [frames EXCEPT ![f].pc = "done", ![f].out = "mock"]
            /\ detections' = generateMockDetections(f)
            /\ timers' = [timers EXCEPT ![frames[f].timer] = "cleared"]
    /\ UNCHANGED <<worker, pipe, mode, isProcessing, isModelLoaded, sessionRef, streamRef,
                   wsRef, intervalRef, loadPc, starts, sockets>>

\* fetch settled: res is "ok" (response.ok), "status" (any other status)
\* or "reject" (the request threw).
FetchSettles(f, res) ==
    /\ frames[f].pc = "awaitFetch"
    /\ IF res = "ok"
       THEN /\ frames' = [frames EXCEPT ![f].pc = "awaitJson"]
            /\ UNCHANGED detections
       ELSE /\ frames' = [frames EXCEPT ![f].pc = "done", ![f].out = "mock"]
            /\ detections' = generateMockDetections(f)
    /\ UNCHANGED <<worker, pipe, mode, isProcessing, isModelLoaded, sessionRef, streamRef,
                   wsRef, intervalRef, loadPc, starts, timers, sockets>>

\* response.json() settled: parsed to an object carrying n detections
\* (result.detections || []), or threw.
JsonSettles(f, parsed, n) ==
    /\ frames[f].pc = "awaitJson"
    /\ IF parsed
       THEN /\ frames' = [frames EXCEPT ![f].pc = "done", ![f].out = "real"]
            /\ detections' = HttpBatch(f, n)
       ELSE /\ frames' = [frames EXCEPT ![f].pc = "done", ![f].out = "mock"]
            /\ detections' = generateMockDetections(f)
    /\ UNCHANGED <<worker, pipe, mode, isProcessing, isModelLoaded, sessionRef, streamRef,
                   wsRef, intervalRef, loadPc, starts, timers, sockets>>

\* -------------------------------------------------- streaming channel
\* ws.onopen: the handshake succeeded.
WsOpen(s) ==
    /\ sockets[s] = "CONNECTING"
    /\ sockets' = [sockets EXCEPT ![s] = "OPEN"]
    /\ UNCHANGED <<worker, pipe, mode, detections, isProcessing, isModelLoaded, sessionRef,
                   streamRef, wsRef, intervalRef, loadPc, starts, timers,
                   frames>>

\* ws.onclose: the handshake failed, the peer went away, or a close()
\* completed.  The handler clears wsRef whichever channel it belongs to.
WsClosed(s) ==
    /\ sockets[s] \in {"CONNECTING", "OPEN", "CLOSING"}
    /\ sockets' = [sockets EXCEPT ![s] = "CLOSED"]
    /\ wsRef' = 0
    /\ UNCHANGED <<worker, pipe, mode, detections, isProcessing, isModelLoaded, sessionRef,
                   streamRef, intervalRef, loadPc, starts, timers, frames>>

MsgKinds == {"detections", "nofield", "binary", "badjson"}

\* Variant of WsMessage that closes the channel on a message it cannot use.
WsMessage_CloseOnBad(s, msg, n) ==
    /\ sockets[s] = "OPEN"
    /\ detections' = IF msg = "detections" THEN WsBatch(s, n) ELSE detections
    /\ sockets' = IF msg \in {"binary", "badjson"}
                  THEN [sockets EXCEPT ![s] = "CLOSING"]
                  ELSE sockets
    /\ UNCHANGED <<worker, pipe, mode, isProcessing, isModelLoaded, sessionRef, streamRef,
                   wsRef, intervalRef, loadPc, starts, timers, frames>>

\* ws.onmessage on an open channel.
WsMessage(s, msg, n) ==
    /\ sockets[s] = "OPEN"
    /\ detections' = IF msg = "detections" THEN WsBatch(s, n) ELSE detections
    /\ UNCHANGED <<worker, pipe, mode, isProcessing, isModelLoaded, sessionRef, streamRef,
                   wsRef, intervalRef, loadPc, starts, timers, sockets, frames>>

\* ---------------------------------------------------------------- Next
Next ==
    \/ LoadModelOk
    \/ LoadModelFail
    \/ \E stream \in {"null", "stream"} : StartDetection(stream)
    \/ \E s \in StartIds, wsOk \in BOOLEAN : MetadataLoaded(s, wsOk)
    \/ StopDetection
    \/ \E s \in StartIds, ctxOk \in BOOLEAN : Tick(s, ctxOk)
    \/ \E f \in FrameIds, n \in 0..MaxDet : RunResolves(f, n)
    \/ \E f \in FrameIds : RunRejects(f)
    \/ \E f \in FrameIds, blobOk \in BOOLEAN, sendOk \in BOOLEAN :
          BlobReady(f, blobOk, sendOk)
    \/ \E f \in FrameIds, res \in {"ok", "status", "reject"} : FetchSettles(f, res)
    \/ \E f \in FrameIds, parsed \in BOOLEAN, n \in 0..MaxDet :
          JsonSettles(f, parsed, n)
    \/ \E s \in StartIds : WsOpen(s)
    \/ \E s \in StartIds : WsClosed(s)
    \/ \E s \in StartIds, msg \in MsgKinds, n \in 0..MaxDet : WsMessage(s, msg, n)

Spec == Init /\ [][Next]_vars

TypeOK ==
    /\ mode \in Modes
    /\ isProcessing \in BOOLEAN
    /\ isModelLoaded \in BOOLEAN
    /\ sessionRef \in {"null", "session"}
    /\ streamRef \in {"null", "stream"}
    /\ wsRef \in {0} \cup StartIds
    /\ intervalRef \in {0} \cup StartIds
    /\ loadPc \in {"none", "loading", "loaded", "failed"}
    /\ \A s \in StartIds :
          /\ starts[s].pc \in {"idle", "awaitMeta", "done"}
          /\ timers[s] \in {"none", "armed", "cleared"}
          /\ sockets[s] \in {"none", "CONNECTING", "OPEN", "CLOSING", "CLOSED"}
    /\ \A f \in FrameIds :
          /\ frames[f].pc \in {"none", "awaitRun", "awaitBlob", "awaitFetch",
                               "awaitJson", "done"}
          /\ frames[f].out \in {"none", "skip", "noctx", "noblob", "sent",
                                "real", "mock"}
          /\ frames[f].http \in 0..1

\* ------------------------------------------------------------ numbers
\* JavaScript numbers as exact fractions n/d in lowest terms with d > 0.
\* d = 0 stands for NaN, which is also what arithmetic makes of undefined
\* (a read past the end of a typed array).  Rounding is not modelled.
NaN == [n |-> 0, d |-> 0]
IsNaN(a) == a.d = 0
Abs(x) == IF x < 0 THEN 0 - x ELSE x

RECURSIVE GCD(_, _)
GCD(a, b) == IF b = 0 THEN a ELSE GCD(b, a % b)

R(n, d) ==
    IF d = 0 THEN NaN
    ELSE LET g == GCD(Abs(n), Abs(d))
             sg == IF d < 0 THEN 0 - 1 ELSE 1
         IN [n |-> (sg * n) \div g, d |-> (sg * d) \div g]

RAdd(a, b) == IF IsNaN(a) \/ IsNaN(b) THEN NaN
              ELSE R(a.n * b.d + b.n * a.d, a.d * b.d)
RSub(a, b) == IF IsNaN(a) \/ IsNaN(b) THEN NaN
              ELSE R(a.n * b.d - b.n * a.d, a.d * b.d)
RMul(a, b) == IF IsNaN(a) \/ IsNaN(b) THEN NaN
              ELSE R(a.n * b.n, a.d * b.d)
\* the divisor is never 0 where the model divides (sizes and scale are > 0)
RDiv(a, b) == IF IsNaN(a) \/ IsNaN(b) THEN NaN
              ELSE R(a.n * b.d, a.d * b.n)
\* comparisons with NaN are false
RLt(a, b) == ~IsNaN(a) /\ ~IsNaN(b) /\ a.n * b.d < b.n * a.d
RLe(a, b) == ~IsNaN(a) /\ ~IsNaN(b) /\ a.n * b.d <= b.n * a.d
\* Math.max and Math.min return NaN when an argument is NaN
MathMax(a, b) == IF IsNaN(a) \/ IsNaN(b) THEN NaN ELSE IF RLt(a, b) THEN b ELSE a
MathMin(a, b) == IF IsNaN(a) \/ IsNaN(b) THEN NaN ELSE IF RLt(b, a) THEN b ELSE a

\* ----------------------------------------------------- preprocessImage
InputSize == 640        \* default of preprocessImage's inputSize
DefaultWidth == 640     \* videoWidth || 640
DefaultHeight == 480    \* videoHeight || 480
MaxSide == 2            \* largest input size whose pixels are enumerated

\* Variant of CanvasWidth without the default for a zero width.
CanvasWidth_NoDefault(vw) == vw

\* canvas.width / canvas.height of processFrame
CanvasWidth(vw) == IF vw = 0 THEN DefaultWidth ELSE vw
CanvasHeight(vh) == IF vh = 0 THEN DefaultHeight ELSE vh

\* Variant of Letterbox that takes the larger ratio (fills instead of fits).
Letterbox_Max(w, h, S) ==
    LET scale == MathMax(R(S, w), R(S, h))
        scaledWidth == RMul(R(w, 1), scale)
        scaledHeight == RMul(R(h, 1), scale)
    IN [scale |-> scale,
        scaledWidth |-> scaledWidth,
        scaledHeight |-> scaledHeight,
        dx |-> RDiv(RSub(R(S, 1), scaledWidth), R(2, 1)),
        dy |-> RDiv(RSub(R(S, 1), scaledHeight), R(2, 1))]

\* the letterbox parameters of preprocessImage
Letterbox(w, h, S) ==
    LET scale == MathMin(R(S, w), R(S, h))
        scaledWidth == RMul(R(w, 1), scale)
        scaledHeight == RMul(R(h, 1), scale)
    IN [scale |-> scale,
        scaledWidth |-> scaledWidth,
        scaledHeight |-> scaledHeight,
        dx |-> RDiv(RSub(R(S, 1), scaledWidth), R(2, 1)),
        dy |-> RDiv(RSub(R(S, 1), scaledHeight), R(2, 1))]

\* drawImage(canvas, dx, dy, scaledWidth, scaledHeight): where the source
\* point (x, y) of a w x h canvas lands in the input canvas
DrawX(info, w, x) == RAdd(info.dx, RDiv(RMul(x, info.scaledWidth), R(w, 1)))
DrawY(info, h, y) == RAdd(info.dy, RDiv(RMul(y, info.scaledHeight), R(h, 1)))

\* Variant of EncodeLoop that writes the channels interleaved (HWC).
RECURSIVE EncodeLoop_Interleaved(_, _, _, _)
EncodeLoop_Interleaved(img, S, i, data) ==
    IF i >= S * S THEN data
    ELSE LET pixelIndex == i * 4
         IN EncodeLoop_Interleaved(img, S, i + 1,
                [data EXCEPT ![3 * i + 1] = R(img[pixelIndex + 1], 255),
                             ![3 * i + 2] = R(img[pixelIndex + 2], 255),
                             ![3 * i + 3] = R(img[pixelIndex + 3], 255)])

\* the conversion loop: RGBA bytes to planar floats.  img and data are
\* 1-indexed, index k of the code is k + 1 here.
RECURSIVE EncodeLoop(_, _, _, _)
EncodeLoop(img, S, i, data) ==
    IF i >= S * S THEN data
    ELSE LET pixelIndex == i * 4
             tensorIndex == i
         IN EncodeLoop(img, S, i + 1,
                [data EXCEPT ![tensorIndex + 1] = R(img[pixelIndex + 1], 255),
                             ![tensorIndex + S * S + 1] = R(img[pixelIndex + 2], 255),
                             ![tensorIndex + S * S * 2 + 1] = R(img[pixelIndex + 3], 255)])

\* new Float32Array(3 * S * S), filled by the loop
EncodeTensor(img, S) == EncodeLoop(img, S, 0, [k \in 1..(3 * S * S) |-> R(0, 1)])

\* RGBA pixels the input canvas can hold: the gray fill and a translucent
\* colour whose four channels differ
Palette == {<<128, 128, 128, 255>>, <<10, 64, 255, 7>>}

\* getImageData(0, 0, S, S).data for every assignment of palette pixels
Images(S) ==
    {[k \in 1..(4 * S * S) |-> px[((k - 1) \div 4) + 1][((k - 1) % 4) + 1]] :
        px \in [1..(S * S) -> Palette]}

\* ------------------------------------------------ postprocessDetections
\* the label table, index = class id (the code's index k is k + 1 here)
COCO_CLASSES == <<
    "person", "bicycle", "car", "motorcycle", "airplane", "bus", "train",
    "truck", "boat", "traffic light", "fire hydrant", "stop sign",
    "parking meter", "bench", "bird", "cat", "dog", "horse", "sheep",
    "cow", "elephant", "bear", "zebra", "giraffe", "backpack", "umbrella",
    "handbag", "tie", "suitcase", "frisbee", "skis", "snowboard",
    "sports ball", "kite", "baseball bat", "baseball glove", "skateboard",
    "surfboard", "tennis racket", "bottle", "wine glass", "cup", "fork",
    "knife", "spoon", "bowl", "banana", "apple", "sandwich", "orange",
    "broccoli", "carrot", "hot dog", "pizza", "donut", "cake", "chair",
    "couch", "potted plant", "bed", "dining table", "toilet", "tv",
    "laptop", "mouse", "remote", "keyboard", "cell phone", "microwave",
    "oven", "toaster", "sink", "refrigerator", "book", "clock", "vase",
    "scissors", "teddy bear", "hair drier", "toothbrush">>

\* Variant of Label that indexes the table from 1.
Label_OneBased(index) ==
    IF index \in 1..Len(COCO_CLASSES) THEN COCO_CLASSES[index] ELSE "undefined"

\* COCO_CLASSES[maxClassIndex]; an index outside the array gives undefined
Label(index) ==
    IF index \in 0..(Len(COCO_CLASSES) - 1) THEN COCO_CLASSES[index + 1]
    ELSE "undefined"

Stride == 85            \* baseIndex = i * 85
NumClasses == 80        \* numClasses
ConfFloor == R(1, 4)    \* the 0.25 of both confidence tests

MaxAnchors == 2         \* most anchor records in a raw output tensor

\* outputData[i]: tensor values are kept in thousandths; a read past the
\* end is undefined
Read(data, i) == IF i >= 0 /\ i < Len(data) THEN R(data[i + 1], 1000) ELSE NaN

\* the class loop, from j on, with the running maximum and its index
RECURSIVE ScanClasses(_, _, _, _, _)
ScanClasses(data, baseIndex, j, maxClassScore, maxClassIndex) ==
    IF j >= NumClasses
    THEN [score |-> maxClassScore, index |-> maxClassIndex]
    ELSE LET classScore == Read(data, baseIndex + 5 + j)
         IN IF RLt(maxClassScore, classScore)
            THEN ScanClasses(data, baseIndex, j + 1, classScore, j)
            ELSE ScanClasses(data, baseIndex, j + 1, maxClassScore, maxClassIndex)

\* Variant of BelowFloor with the comparison turned round.
BelowFloor_Inverted(v, floor) == RLt(floor, v)

\* "if (v < 0.25) continue"
BelowFloor(v, floor) == RLt(v, floor)

\* Variant of Unletterbox that divides before it subtracts the offset.
Unletterbox_DivideFirst(X, offset, scale) == RSub(RDiv(X, scale), offset)

\* input-canvas coordinate back to a source coordinate
Unletterbox(X, offset, scale) == RDiv(RSub(X, offset), scale)

\* corners, unscaled, normalized and clamped
NormalizedBox(cx, cy, w, h, info, originalWidth, originalHeight) ==
    LET x1 == Unletterbox(RSub(cx, RDiv(w, R(2, 1))), info.dx, info.scale)
        y1 == Unletterbox(RSub(cy, RDiv(h, R(2, 1))), info.dy, info.scale)
        x2 == Unletterbox(RAdd(cx, RDiv(w, R(2, 1))), info.dx, info.scale)
        y2 == Unletterbox(RAdd(cy, RDiv(h, R(2, 1))), info.dy, info.scale)
    IN [xmin |-> MathMax(R(0, 1), RDiv(x1, R(originalWidth, 1))),
        ymin |-> MathMax(R(0, 1), RDiv(y1, R(originalHeight, 1))),
        xmax |-> MathMin(R(1, 1), RDiv(x2, R(originalWidth, 1))),
        ymax |-> MathMin(R(1, 1), RDiv(y2, R(originalHeight, 1)))]

\* "if (xmax <= xmin || ymax <= ymin) continue"
InvalidBox(b) == RLe(b.xmax, b.xmin) \/ RLe(b.ymax, b.ymin)

\* one pass of the anchor loop: the detection pushed for anchor i, if any.
\* "anchor" records which pass pushed it; the code's object has no such field.
DecodeAnchor(data, i, info, originalWidth, originalHeight, floor) ==
    LET baseIndex == i * Stride
        objectness == Read(data, baseIndex + 4)
    IN IF BelowFloor(objectness, floor) THEN <<>>
       ELSE LET best == ScanClasses(data, baseIndex, 0, R(0, 1), 0)
                confidence == RMul(objectness, best.score)
            IN IF BelowFloor(confidence, floor) THEN <<>>
               ELSE LET b == NormalizedBox(Read(data, baseIndex),
                                           Read(data, baseIndex + 1),
                                           Read(data, baseIndex + 2),
                                           Read(data, baseIndex + 3),
                                           info, originalWidth, originalHeight)
                    IN IF InvalidBox(b) THEN <<>>
                       ELSE <<[anchor |-> i,
                               class |-> best.index,
                               label |-> Label(best.index),
                               score |-> confidence,
                               xmin |-> b.xmin, ymin |-> b.ymin,
                               xmax |-> b.xmax, ymax |-> b.ymax]>>

\* the anchor loop from i on; numDetections = output.dims[1]
RECURSIVE DecodeLoop(_, _, _, _, _, _, _)
DecodeLoop(output, i, info, originalWidth, originalHeight, floor, acc) ==
    IF i >= output.N THEN acc
    ELSE DecodeLoop(output, i + 1, info, originalWidth, originalHeight, floor,
            acc \o DecodeAnchor(output.data, i, info, originalWidth,
                                originalHeight, floor))

\* the decoder with its confidence floor as an argument
Decode(output, info, originalWidth, originalHeight, floor) ==
    DecodeLoop(output, 0, info, originalWidth, originalHeight, floor, <<>>)

postprocessDetections(output, info, originalWidth, originalHeight) ==
    Decode(output, info, originalWidth, originalHeight, ConfFloor)

\* ------------------------------------------------ raw output tensors
\* Anchor boxes in input-canvas pixels <<cx, cy, w, h>>: inside the frame,
\* left of it, larger than it, and of zero width.
Centre == <<320, 320, 100, 100>>
Outside == <<0 - 200, 320, 100, 100>>
Large == <<320, 320, 2000, 2000>>
Flat == <<320, 320, 0, 100>>

\* Objectness in thousandths with a pattern of class scores.  (Anchors adds
\* one objectness above 1: the tensor's values are whatever the model gives.)
Scores == {<<900, "second">>, <<200, "second">>, <<500, "tie">>,
           <<500, "low">>, <<250, "zero">>}

\* the anchors tensors are built from: <<box, <<objectness, pattern>>>>
Anchors ==
    ({Centre} \X Scores)
    \cup ({Outside, Large, Flat} \X {<<900, "second">>})
    \cup {<<Large, <<500, "tie">>>>, <<Centre, <<1500, "second">>>>}

\* class score j (0-based) of a pattern, in thousandths, for C classes
ClassScore(pattern, j, C) ==
    CASE pattern = "second" -> IF j = 1 THEN 900 ELSE IF j = 0 THEN 100 ELSE 0
      [] pattern = "tie"    -> IF j = 1 \/ j = C - 1 THEN 500 ELSE 0
      [] pattern = "low"    -> IF j = C - 1 THEN 400 ELSE 0
      [] OTHER              -> 0

\* element k (0-based) of an anchor record of length K
AnchorValue(a, k, K) ==
    IF k < 4 THEN a[1][k + 1] * 1000
    ELSE IF k = 4 THEN a[2][1]
    ELSE ClassScore(a[2][2], k - 5, K - 5)

\* record lengths: the 85 of YOLOv5 with 80 classes, and a short record
RecordLengths == {Stride, 7}

\* a [1, N, K] tensor: its dims and the flat data, N * K values
Tensor(rows, N, K) ==
    [N |-> N, K |-> K,
     data |-> [k \in 1..(N * K) |->
                  AnchorValue(rows[((k - 1) \div K) + 1], (k - 1) % K, K)]]

RawTensors ==
    UNION {{Tensor(rows, N, K) : rows \in [1..N -> Anchors]} :
              N \in 0..MaxAnchors, K \in RecordLengths}

\* ------------------------------------------- one frame through the pipeline
\* The session in which the frame is processed: model loaded, a second
\* startDetection issued while the first was processing, both timers armed.
RunningSession ==
    /\ mode = "wasm"
    /\ detections = generateMockDetections(0 - 2)
    /\ isProcessing = TRUE
    /\ isModelLoaded = TRUE
    /\ sessionRef = "session"
    /\ streamRef = "stream"
    /\ wsRef = 0
    /\ intervalRef = 2
    /\ loadPc = "loaded"
    /\ starts = [s \in StartIds |->
                    [pc |-> IF s <= 2 THEN "done" ELSE "idle",
                     capProcessing |-> s = 2,
                     capLoaded |-> s <= 2]]
    /\ timers = [s \in StartIds |-> IF s <= 2 THEN "armed" ELSE "none"]
    /\ sockets = [s \in StartIds |-> "none"]
    /\ frames = [f \in FrameIds |-> NoFrame]

\* The same session in mock mode (no model is loaded in that mode).
RunningMockSession ==
    /\ mode = "mock"
    /\ detections = generateMockDetections(0 - 2)
    /\ isProcessing = TRUE
    /\ isModelLoaded = FALSE
    /\ sessionRef = "null"
    /\ streamRef = "stream"
    /\ wsRef = 0
    /\ intervalRef = 2
    /\ loadPc = "none"
    /\ starts = [s \in StartIds |->
                    [pc |-> IF s <= 2 THEN "done" ELSE "idle",
                     capProcessing |-> s = 2,
                     capLoaded |-> FALSE]]
    /\ timers = [s \in StartIds |-> IF s <= 2 THEN "armed" ELSE "none"]
    /\ sockets = [s \in StartIds |-> "none"]
    /\ frames = [f \in FrameIds |-> NoFrame]

\* values Math.random() returns: the ends of [0, 1)
Jitter == {R(0, 1), R(999, 1000)}

\* the ten Math.random() calls of one generateMockDetections call, in order
Draws == [1..10 -> Jitter]

\* Variant of MockDetections whose first box grows by up to 0.2 in height.
MockDetections_TallBox(rnd) ==
    <<[label |-> "person",
       score |-> RAdd(R(89, 100), RMul(rnd[1], R(1, 10))),
       xmin |-> RAdd(R(1, 10), RMul(rnd[2], R(1, 10))),
       ymin |-> RAdd(R(1, 10), RMul(rnd[3], R(1, 10))),
       xmax |-> RAdd(R(6, 10), RMul(rnd[4], R(2, 10))),
       ymax |-> RAdd(R(9, 10), RMul(rnd[5], R(2, 10)))],
      [label |-> "cell phone",
       score |-> RAdd(R(76, 100), RMul(rnd[6], R(15, 100))),
       xmin |-> RAdd(R(7, 10), RMul(rnd[7], R(1, 10))),
       ymin |-> RAdd(R(2, 10), RMul(rnd[8], R(1, 10))),
       xmax |-> RAdd(R(9, 10), RMul(rnd[9], R(5, 100))),
       ymax |-> RAdd(R(5, 10), RMul(rnd[10], R(1, 10)))]>>

\* the list generateMockDetections builds (timestamps left out)
MockDetections(rnd) ==
    <<[label |-> "person",
       score |-> RAdd(R(89, 100), RMul(rnd[1], R(1, 10))),
       xmin |-> RAdd(R(1, 10), RMul(rnd[2], R(1, 10))),
       ymin |-> RAdd(R(1, 10), RMul(rnd[3], R(1, 10))),
       xmax |-> RAdd(R(6, 10), RMul(rnd[4], R(2, 10))),
       ymax |-> RAdd(R(9, 10), RMul(rnd[5], R(1, 10)))],
      [label |-> "cell phone",
       score |-> RAdd(R(76, 100), RMul(rnd[6], R(15, 100))),
       xmin |-> RAdd(R(7, 10), RMul(rnd[7], R(1, 10))),
       ymin |-> RAdd(R(2, 10), RMul(rnd[8], R(1, 10))),
       xmax |-> RAdd(R(9, 10), RMul(rnd[9], R(5, 100))),
       ymax |-> RAdd(R(5, 10), RMul(rnd[10], R(1, 10)))]>>

\* videoWidth / videoHeight of the element; 0 before the metadata is known
VideoWidths == {0, 320, 1920}
VideoHeights == {0, 640, 1080}
\* canvas sizes the decoder is run for
CanvasSizes == {<<640, 480>>, <<320, 640>>, <<1920, 1080>>, <<640, 640>>}

\* The hook before any start, in server mode.
IdleSession ==
    /\ mode = "server"
    /\ detections = EmptyBatch
    /\ isProcessing = FALSE
    /\ isModelLoaded = FALSE
    /\ sessionRef = "null"
    /\ streamRef = "null"
    /\ wsRef = 0
    /\ intervalRef = 0
    /\ loadPc = "none"
    /\ starts = [s \in StartIds |-> IdleStart]
    /\ timers = [s \in StartIds |-> "none"]
    /\ sockets = [s \in StartIds |-> "none"]
    /\ frames = [f \in FrameIds |-> NoFrame]

\* A pass starts either at the video element (capture and preprocessing)
\* or at the backend's raw output (decoding); in mock mode it is one cycle
\* of the timer with the random numbers it will draw.  A pass can also be
\* one call of startDetection, in an idle or a running session.
PipeStart ==
    \/ /\ IdleSession \/ RunningSession \/ RunningMockSession
       /\ \E stream \in {"null", "stream"} :
             pipe = [pc |-> "call", stream |-> stream]
    \/ /\ RunningMockSession
       /\ \E rnd \in Draws : pipe = [pc |-> "tick", rnd |-> rnd]
    \/ /\ RunningSession
       /\ \E vw \in VideoWidths, vh \in VideoHeights, S \in {MaxSide, InputSize} :
             pipe = [pc |-> "video", vw |-> vw, vh |-> vh, S |-> S]
    \/ /\ RunningSession
       /\ \E sz \in CanvasSizes, raw \in RawTensors :
             pipe = [pc |-> "output", w |-> sz[1], h |-> sz[2], S |-> InputSize,
                     info |-> Letterbox(sz[1], sz[2], InputSize), raw |-> raw]

PipeInit == PipeStart /\ worker = NoWorker

\* processFrame sizes its canvas from the video element
Capture ==
    /\ UNCHANGED worker
    /\ pipe.pc = "video"
    /\ pipe' = [pc |-> "canvas", vw |-> pipe.vw, vh |-> pipe.vh, S |-> pipe.S,
                w |-> CanvasWidth(pipe.vw), h |-> CanvasHeight(pipe.vh)]
    /\ UNCHANGED <<mode, detections, isProcessing, isModelLoaded, sessionRef,
                   streamRef, wsRef, intervalRef, loadPc, starts, timers,
                   sockets, frames>>

\* preprocessImage and the call of session.run.  img is what getImageData
\* returns; it is enumerated for input sizes up to MaxSide.
PreprocessAndRun(img) ==
    /\ UNCHANGED worker
    /\ pipe.pc = "canvas"
    /\ Len(img) = (IF pipe.S <= MaxSide THEN 4 * pipe.S * pipe.S ELSE 0)
    /\ pipe' = [pc |-> "running", vw |-> pipe.vw, vh |-> pipe.vh, S |-> pipe.S,
                w |-> pipe.w, h |-> pipe.h,
                info |-> Letterbox(pipe.w, pipe.h, pipe.S),
                img |-> img,
                tensor |-> IF pipe.S <= MaxSide THEN EncodeTensor(img, pipe.S)
                           ELSE <<>>]
    /\ UNCHANGED <<mode, detections, isProcessing, isModelLoaded, sessionRef,
                   streamRef, wsRef, intervalRef, loadPc, starts, timers,
                   sockets, frames>>

\* session.run resolved: postprocessDetections, then setDetections
RunReturned ==
    /\ UNCHANGED worker
    /\ pipe.pc = "output"
    /\ LET dets == postprocessDetections(pipe.raw, pipe.info, pipe.w, pipe.h)
       IN /\ pipe' = [pc |-> "decoded", w |-> pipe.w, h |-> pipe.h, S |-> pipe.S,
                      info |-> pipe.info, raw |-> pipe.raw, dets |-> dets]
          /\ detections' = LocalBatch(1, Len(dets))
    /\ UNCHANGED <<mode, isProcessing, isModelLoaded, sessionRef, streamRef,
                   wsRef, intervalRef, loadPc, starts, timers, sockets, frames>>

\* processFrame of a cycle that passed its guard and got a context: the
\* branch on the mode, which in mock mode is generateMockDetections
MockCycle ==
    /\ UNCHANGED worker
    /\ pipe.pc = "tick"
    /\ IF mode = "wasm" /\ sessionRef # "null" /\ isModelLoaded
       THEN /\ pipe' = [pc |-> "awaitRun", rnd |-> pipe.rnd]
            /\ UNCHANGED detections
       ELSE IF mode = "server"
       THEN /\ pipe' = [pc |-> "awaitBlob", rnd |-> pipe.rnd]
            /\ UNCHANGED detections
       ELSE /\ pipe' = [pc |-> "mocked", rnd |-> pipe.rnd,
                        dets |-> MockDetections(pipe.rnd)]
            /\ detections' = generateMockDetections(1)
    /\ UNCHANGED <<mode, isProcessing, isModelLoaded, sessionRef, streamRef,
                   wsRef, intervalRef, loadPc, starts, timers, sockets, frames>>

\* one call of startDetection, up to its await; "before" keeps the hook's
\* state at the call
StartCall ==
    /\ UNCHANGED worker
    /\ pipe.pc = "call"
    /\ StartBody(pipe.stream)
    /\ pipe' = [pc |-> "returned", stream |-> pipe.stream, before |-> session]

PipeNext ==
    \/ StartCall
    \/ MockCycle
    \/ Capture
    \/ \E img \in Images(MaxSide) \cup {<<>>} : PreprocessAndRun(img)
    \/ RunReturned

SpecPipe == PipeInit /\ [][PipeNext]_vars

\* the pass has computed the letterbox parameters
HasInfo == pipe.pc \in {"running", "output", "decoded"}

\* source coordinates the mapping is tried on, for an extent of e pixels
Points(e) == {R(0, 1), R(1, 3), R(1, 1), R(e, 2), R(e, 1)}

\* what a [1, N, K] tensor holds for anchor i: field k of its record
Field(raw, i, k) == Read(raw.data, i * raw.K + k)

\* the largest of anchor i's K - 5 class scores
MaxClassScore(raw, i) ==
    LET scores == {Field(raw, i, 5 + j) : j \in 0..(raw.K - 6)}
    IN CHOOSE m \in scores : \A c \in scores : RLe(c, m)

\* anchor i's box, mapped back to the source, normalized and clamped, has
\* positive width and height
PositiveBox(raw, i, info, ow, oh) ==
    LET half(v) == RDiv(v, R(2, 1))
        back(X, off, extent) == RDiv(RDiv(RSub(X, off), info.scale), R(extent, 1))
        lo(v) == IF RLt(v, R(0, 1)) THEN R(0, 1) ELSE v
        hi(v) == IF RLt(R(1, 1), v) THEN R(1, 1) ELSE v
        xmin == lo(back(RSub(Field(raw, i, 0), half(Field(raw, i, 2))), info.dx, ow))
        xmax == hi(back(RAdd(Field(raw, i, 0), half(Field(raw, i, 2))), info.dx, ow))
        ymin == lo(back(RSub(Field(raw, i, 1), half(Field(raw, i, 3))), info.dy, oh))
        ymax == hi(back(RAdd(Field(raw, i, 1), half(Field(raw, i, 3))), info.dy, oh))
    IN RLt(xmin, xmax) /\ RLt(ymin, ymax)

\* the three conditions under which anchor i is to be emitted
Qualifies(raw, i, info, ow, oh) ==
    /\ RLe(ConfFloor, Field(raw, i, 4))
    /\ RLe(ConfFloor, RMul(Field(raw, i, 4), MaxClassScore(raw, i)))
    /\ PositiveBox(raw, i, info, ow, oh)

\* confidence floors the decoder is compared under, in ascending order
Floors == <<R(1, 10), ConfFloor, R(1, 2)>>

\* ------------------------------------------------- the detection worker
MaxRequests == 3        \* request messages sent to the worker

ReqIds == 1..MaxRequests

\* a request's handler: where it is and what it has posted, in order
NoRequest == [pc |-> "none", posted |-> <<>>]

\* the worker after its script has run: no instance yet, no message handled
StartedWorker ==
    [pc |-> "started", instance |-> "null", created |-> 0,
     reqs |-> [r \in ReqIds |-> NoRequest]]

\* Variant of getInstance without the test of the static field.
getInstance_NoTest(w) == [w EXCEPT !.instance = "model", !.created = @ + 1]

\* YoloWasmWorker.getInstance up to its return: the instance is created
\* when the static field is null; "created" counts the constructions
getInstance(w) ==
    IF w.instance = "null"
    THEN [w EXCEPT !.instance = "model", !.created = @ + 1]
    ELSE w

\* The message handler up to its first suspension.  hasData: event.data is
\* an object; destructuring null or undefined throws before the try block.
OnMessage(r, hasData) ==
    /\ worker.pc = "started"
    /\ worker.reqs[r].pc = "none"
    /\ worker' = IF ~hasData
                 THEN [worker EXCEPT !.reqs[r].pc = "threw"]
                 ELSE [getInstance(worker) EXCEPT !.reqs[r] =
                          [pc |-> "awaitInstance",
                           posted |-> <<"running inference">>]]
    /\ UNCHANGED <<session, pipe>>

\* "await getInstance()" resumes and model.run is called; run suspends at
\* its timeout
InstanceReady(r) ==
    /\ worker.pc = "started"
    /\ worker.reqs[r].pc = "awaitInstance"
    /\ worker' = [worker EXCEPT !.reqs[r].pc = "awaitRun"]
    /\ UNCHANGED <<session, pipe>>

\* model.run settled: the result is posted, or the catch block posts the
\* error (the mock model of this file never rejects; a real one can)
RunSettles(r, ok) ==
    /\ worker.pc = "started"
    /\ worker.reqs[r].pc = "awaitRun"
    /\ worker' = [worker EXCEPT
                    !.reqs[r].pc = "done",
                    !.reqs[r].posted =
                        Append(@, IF ok THEN "complete" ELSE "error")]
    /\ UNCHANGED <<session, pipe>>

WorkerInit == IdleSession /\ pipe = NoPipe /\ worker = StartedWorker

WorkerNext ==
    \/ \E r \in ReqIds, hasData \in BOOLEAN : OnMessage(r, hasData)
    \/ \E r \in ReqIds : InstanceReady(r)
    \/ \E r \in ReqIds, ok \in BOOLEAN : RunSettles(r, ok)

SpecWorker == WorkerInit /\ [][WorkerNext]_vars

\* ------------------------------------------------------------ helpers
InFlight(f) == frames[f].pc \in {"awaitRun", "awaitBlob", "awaitFetch", "awaitJson"}

\* the step in which the timer callback of frame f ran
Dispatched(f) == frames[f].pc = "none" /\ frames'[f].pc # "none"

\* the step in which stopDetection ended a running session
Stopped == isProcessing /\ ~isProcessing'

ChannelOpen == wsRef # 0 /\ sockets[wsRef] = "OPEN"

\* ------------------------------------------------------------- claims

\* C1 (as claimed): teardown silence.  While the session is stopped
\* (stopDetection called, no startDetection since) and the published batch
\* is empty, a processFrame call that was in flight and now resolves or
\* fails leaves the published batch empty.
C1_TeardownSilence ==
    [][\A f \in FrameIds :
        (~isProcessing /\ IsEmpty(detections) /\ InFlight(f)
            /\ frames'[f].pc = "done")
        => IsEmpty(detections')]_vars

\* C2 (as claimed): fallback liveness.  In local mode with a loaded model,
\* every timer cycle of a running session either starts a local call, whose
\* failure publishes a non-empty synthetic batch, or publishes a synthetic
\* batch at once, and leaves its timer armed.  (A cycle that got no canvas
\* context is left out.)
C2_FallbackLiveness ==
    [][\A f \in FrameIds :
        /\ (Dispatched(f) /\ isProcessing /\ mode = "wasm"
                /\ sessionRef # "null" /\ isModelLoaded)
            => /\ \/ frames'[f].pc = "awaitRun"
                  \/ frames'[f].out = "noctx"
                  \/ (frames'[f].out = "mock" /\ ~IsEmpty(detections'))
               /\ timers'[frames'[f].timer] = "armed"
        /\ (frames[f].pc = "awaitRun" /\ frames'[f].out = "mock")
            => ~IsEmpty(detections')]_vars

\* C3: a failed local call publishes the synthetic batch of its frame and
\* leaves the model handle and isModelLoaded as they were (the handle is
\* still set); a later cycle of the same timer starts a local call again.
C3_LocalFailureNotSticky ==
    [][\A f \in FrameIds :
        /\ (frames[f].pc = "awaitRun" /\ frames'[f].pc = "done"
                /\ frames'[f].out = "mock")
            => /\ detections' = generateMockDetections(f)
               /\ sessionRef' = sessionRef
               /\ sessionRef' # "null"
               /\ isModelLoaded' = isModelLoaded
               /\ loadPc' = loadPc
        /\ (Dispatched(f) /\ mode = "wasm"
                /\ \E g \in FrameIds : /\ frames[g].out = "mock"
                                       /\ frames[g].timer = frames'[f].timer
                                       /\ starts[frames[g].timer].capLoaded)
            => frames'[f].pc = "awaitRun" \/ frames'[f].out = "noctx"]_vars

\* C3 witness: a local call failed and published a synthetic batch, and a
\* later cycle has a local call in flight with the backend still ready.
C3_Witness ==
    \E f, g \in FrameIds :
        /\ f < g
        /\ mode = "wasm"
        /\ frames[f].pc = "done" /\ frames[f].out = "mock"
        /\ starts[frames[f].timer].capLoaded
        /\ frames[g].pc = "awaitRun"
        /\ sessionRef = "session" /\ isModelLoaded

\* C4 (as claimed): in remote mode a frame that is not sent on an open
\* channel is submitted by exactly one one-shot request.
C4_AlwaysOneRequest ==
    [][\A f \in FrameIds :
        (frames[f].pc = "awaitBlob" /\ frames'[f].pc # "awaitBlob"
            /\ frames'[f].out # "sent")
        => frames'[f].pc = "awaitFetch" /\ frames'[f].http = 1]_vars

\* C4 (amended): a frame whose JPEG blob was produced and that is not sent
\* on an open channel is submitted by exactly one one-shot request; a
\* frame is sent only on an open channel; a response that is ok and parses
\* publishes that response's detections; a non-success status, a thrown
\* request or an unparsable body publishes the frame's synthetic batch.
C4_RemoteFallbackChain ==
    [][\A f \in FrameIds :
        /\ (frames[f].pc = "awaitBlob" /\ frames'[f].pc # "awaitBlob")
            => /\ frames'[f].out = "sent" => ChannelOpen
               /\ frames'[f].out \notin {"sent", "noblob"}
                    => frames'[f].pc = "awaitFetch" /\ frames'[f].http = 1
               /\ detections' = detections
        /\ frames'[f].http <= 1
        /\ frames[f].pc \in {"awaitFetch", "awaitJson"}
            => /\ frames[f].http = 1
               /\ frames'[f].http = 1
        /\ (frames[f].pc = "awaitFetch" /\ frames'[f].pc # "awaitFetch")
            => \/ frames'[f].pc = "awaitJson" /\ detections' = detections
               \/ /\ frames'[f].pc = "done" /\ frames'[f].out = "mock"
                  /\ detections' = generateMockDetections(f)
        /\ (frames[f].pc = "awaitJson" /\ frames'[f].pc # "awaitJson")
            => /\ frames'[f].pc = "done"
               /\ \/ /\ frames'[f].out = "real"
                     /\ \E n \in 0..MaxDet : detections' = HttpBatch(f, n)
                  \/ /\ frames'[f].out = "mock"
                     /\ detections' = generateMockDetections(f)]_vars

\* C4 witness: with no open channel a frame went through the one-shot
\* request, the request failed and the frame's synthetic batch is published.
C4_Witness ==
    \E f \in FrameIds :
        /\ mode = "server"
        /\ frames[f].pc = "done" /\ frames[f].out = "mock"
        /\ frames[f].http = 1
        /\ ~ChannelOpen
        /\ detections = generateMockDetections(f)

\* C5: a frame sent on the open channel ends its cycle at once: no
\* one-shot request, no batch published by the cycle, then or later.
C5_SentCycleEnds ==
    [][\A f \in FrameIds :
        /\ (frames[f].pc = "awaitBlob" /\ frames'[f].out = "sent")
            => /\ ChannelOpen
               /\ frames'[f].pc = "done"
               /\ frames'[f].http = 0
               /\ detections' = detections
        /\ frames[f].out = "sent" => frames'[f] = frames[f]
        /\ (detections' # detections /\ detections'.kind \in {"http", "mock"}
                /\ detections'.id > 0)
            => frames[detections'.id].out # "sent"]_vars

\* C5 witness: a frame was sent on the open channel and the published batch
\* is the reply that arrived on that channel.
C5_Witness ==
    \E f \in FrameIds :
        /\ frames[f].out = "sent"
        /\ frames[f].pc = "done"
        /\ detections.kind = "ws"

\* C6: the step that stops a running session leaves intervalRef null with
\* its timer disarmed, wsRef null with its channel asked to close,
\* isProcessing false and the published batch empty.
C6_StopIsSynchronous ==
    [][Stopped =>
        /\ intervalRef' = 0
        /\ intervalRef # 0 => timers'[intervalRef] = "cleared"
        /\ wsRef' = 0
        /\ wsRef # 0 => sockets'[wsRef] \notin {"CONNECTING", "OPEN"}
        /\ ~isProcessing'
        /\ detections' = EmptyBatch]_vars

\* C6 witness: stopDetection has run on a session that had a timer and a
\* channel.
C6_Witness ==
    /\ ~isProcessing
    /\ intervalRef = 0 /\ wsRef = 0
    /\ detections = EmptyBatch
    /\ \E s \in StartIds : timers[s] = "cleared" /\ sockets[s] = "CLOSING"

\* C7 (as claimed): when stopDetection returns, no channel is connecting
\* or open, whatever starts, stops and close events came before.
C7_NoChannelAfterStop ==
    [][Stopped => \A s \in StartIds : sockets'[s] \notin {"CONNECTING", "OPEN"}]_vars

C9_OnlyStopEndsSession ==
    [][(Stopped \/ \E s \in StartIds : timers[s] = "armed" /\ timers'[s] # "armed")
        => StopDetection]_vars

\* C9 witness: a one-shot request failed after the channel was lost, and
\* the session is still running with its timer armed.
C9_Witness ==
    \E f \in FrameIds :
        /\ isProcessing
        /\ frames[f].out = "mock" /\ frames[f].http = 1
        /\ sockets[frames[f].timer] = "CLOSED"
        /\ timers[frames[f].timer] = "armed"
        /\ intervalRef = frames[f].timer

\* C10: what a timer cycle does is decided by its closure and the refs
\* alone: a cycle whose closure sees the session as processing is never
\* dropped, and starts its call whatever calls are still outstanding.
C10_FixedRateSampling ==
    [][\A f \in FrameIds :
        Dispatched(f) =>
          LET s == frames'[f].timer
          IN /\ frames'[f].out = "skip" => ~starts[s].capProcessing
             /\ (starts[s].capProcessing /\ frames'[f].out # "noctx")
                  => /\ (mode = "wasm" /\ sessionRef # "null" /\ starts[s].capLoaded)
                          => frames'[f].pc = "awaitRun"
                     /\ mode = "server" => frames'[f].pc = "awaitBlob"]_vars

\* C10 witness: every cycle's call is in flight at once.
C10_Witness ==
    /\ \A f \in FrameIds : InFlight(f)
    /\ \E s \in StartIds : timers[s] = "armed"

\* the whole batches a state can publish
WholeBatches ==
    {EmptyBatch}
    \cup {generateMockDetections(f) : f \in FrameIds}
    \cup {generateMockDetections(0 - s) : s \in StartIds}
    \cup {LocalBatch(f, n) : f \in FrameIds, n \in 0..MaxDet}
    \cup {HttpBatch(f, n) : f \in FrameIds, n \in 0..MaxDet}
    \cup {WsBatch(s, n) : s \in StartIds, n \in 0..MaxDet}

\* C11: the published batch is always one whole batch, and a call that
\* completes with a batch replaces the published one with its own batch,
\* whatever is published, also the result of a later frame; a call that
\* completes without a batch leaves the published one untouched.
C11_LastArrivalWins ==
    [][/\ detections' \in WholeBatches
       /\ \A f \in FrameIds :
            (InFlight(f) /\ frames'[f].pc = "done")
            => IF frames'[f].out \in {"real", "mock"}
               THEN detections' \in
                       {generateMockDetections(f)}
                       \cup {LocalBatch(f, n) : n \in 0..MaxDet}
                       \cup {HttpBatch(f, n) : n \in 0..MaxDet}
               ELSE detections' = detections]_vars

\* C11 witness: the later frame's result was published first and the
\* earlier frame's result, arriving last, is the published batch.
C11_Witness ==
    \E f, g \in FrameIds :
        /\ f < g
        /\ frames[g].pc = "done" /\ frames[g].out = "real"
        /\ frames[f].pc = "done" /\ frames[f].out = "real"
        /\ detections.kind = "local" /\ detections.id = f

\* C15: letterbox invertibility.  A source point (x, y) drawn into the input
\* canvas at (x*scale + dx, y*scale + dy) and mapped back by the decoder's
\* "subtract the offset, divide by the scale" is (x, y) again (in exact
\* arithmetic).
C15_LetterboxInvertible ==
    HasInfo =>
        /\ \A x \in Points(pipe.w) :
              /\ DrawX(pipe.info, pipe.w, x)
                    = RAdd(RMul(x, pipe.info.scale), pipe.info.dx)
              /\ Unletterbox(DrawX(pipe.info, pipe.w, x),
                             pipe.info.dx, pipe.info.scale) = x
        /\ \A y \in Points(pipe.h) :
              /\ DrawY(pipe.info, pipe.h, y)
                    = RAdd(RMul(y, pipe.info.scale), pipe.info.dy)
              /\ Unletterbox(DrawY(pipe.info, pipe.h, y),
                             pipe.info.dy, pipe.info.scale) = y

C15_Witness ==
    /\ pipe.pc = "running"
    /\ pipe.info.scale = R(1, 3)
    /\ pipe.info.dy = R(140, 1)

\* C16: plane ordering.  The tensor has 3*S*S entries; for pixel i entry i
\* is its red byte / 255, entry i + S*S its green byte / 255 and entry
\* i + 2*S*S its blue byte / 255; every entry is in [0,1] and no entry
\* depends on the alpha byte.
C16_PlaneOrdering ==
    (pipe.pc = "running" /\ pipe.S <= MaxSide) =>
        LET S == pipe.S
            img == pipe.img
            data == pipe.tensor
        IN /\ Len(data) = 3 * S * S
           /\ \A i \in 0..(S * S - 1) :
                 /\ data[i + 1] = R(img[4 * i + 1], 255)
                 /\ data[i + S * S + 1] = R(img[4 * i + 2], 255)
                 /\ data[i + 2 * S * S + 1] = R(img[4 * i + 3], 255)
           /\ \A k \in 1..Len(data) :
                 RLe(R(0, 1), data[k]) /\ RLe(data[k], R(1, 1))

C16_Witness ==
    /\ pipe.pc = "running"
    /\ pipe.S = MaxSide
    /\ pipe.img[1] = 10 /\ pipe.img[4] = 7
    /\ pipe.img[5] = 128
    /\ pipe.tensor[1] = R(10, 255)
    /\ pipe.tensor[MaxSide * MaxSide + 1] = R(64, 255)

C19_LetterboxParams ==
    HasInfo =>
        LET S == R(pipe.S, 1)
            w == R(pipe.w, 1)
            h == R(pipe.h, 1)
            i == pipe.info
        IN /\ RLt(R(0, 1), i.scale)
           /\ i.scale \in {RDiv(S, w), RDiv(S, h)}
           /\ RLe(i.scale, RDiv(S, w)) /\ RLe(i.scale, RDiv(S, h))
           /\ i.dx = RDiv(RSub(S, RMul(w, i.scale)), R(2, 1))
           /\ i.dy = RDiv(RSub(S, RMul(h, i.scale)), R(2, 1))
           /\ RLe(R(0, 1), i.dx) /\ RLe(R(0, 1), i.dy)
           /\ i.dx = R(0, 1) \/ i.dy = R(0, 1)
           /\ RLe(RMul(w, i.scale), S) /\ RLe(RMul(h, i.scale), S)

C19_Witness ==
    /\ pipe.pc = "running"
    /\ pipe.w = 320 /\ pipe.h = 640 /\ pipe.S = InputSize
    /\ pipe.info.scale = R(1, 1)
    /\ pipe.info.dx = R(160, 1) /\ pipe.info.dy = R(0, 1)

\* C12 as stated: every detection emitted by postprocessDetections has
\* 0 <= xmin < xmax <= 1 and 0 <= ymin < ymax <= 1, for every raw output
\* tensor.
C12_BoxValidity ==
    pipe.pc = "decoded" =>
        \A k \in 1..Len(pipe.dets) :
            LET d == pipe.dets[k]
            IN /\ RLe(R(0, 1), d.xmin) /\ RLt(d.xmin, d.xmax)
               /\ RLe(d.xmax, R(1, 1))
               /\ RLe(R(0, 1), d.ymin) /\ RLt(d.ymin, d.ymax)
               /\ RLe(d.ymax, R(1, 1))

\* C13 as stated: a detection is emitted for anchor i exactly when its
\* objectness is >= 0.25, objectness x max class score is >= 0.25 and its
\* clamped box has positive width and height; detections come in anchor
\* order and carry score = objectness x max class score.
C13_EmitsExactlyQualifying ==
    pipe.pc = "decoded" =>
        /\ \A i \in 0..(pipe.raw.N - 1) :
              (\E k \in 1..Len(pipe.dets) : pipe.dets[k].anchor = i)
              <=> Qualifies(pipe.raw, i, pipe.info, pipe.w, pipe.h)
        /\ \A k \in 1..Len(pipe.dets) :
              pipe.dets[k].score
                 = RMul(Field(pipe.raw, pipe.dets[k].anchor, 4),
                        MaxClassScore(pipe.raw, pipe.dets[k].anchor))
        /\ \A k, l \in 1..Len(pipe.dets) :
              k < l => pipe.dets[k].anchor < pipe.dets[l].anchor

\* C14: confidence filtering is monotone.  For a fixed raw tensor and
\* letterbox info, a lower floor never gives fewer detections and a higher
\* floor never gives more (the published detections are those for 0.25).
C14_FloorMonotone ==
    pipe.pc = "decoded" =>
        LET count == <<Len(Decode(pipe.raw, pipe.info, pipe.w, pipe.h, Floors[1])),
                       Len(pipe.dets),
                       Len(Decode(pipe.raw, pipe.info, pipe.w, pipe.h, Floors[3]))>>
        IN \A lo, hi \in 1..Len(Floors) :
              RLe(Floors[lo], Floors[hi]) => count[hi] <= count[lo]

C14_Witness ==
    /\ pipe.pc = "decoded"
    /\ pipe.raw.K = Stride
    /\ Len(pipe.dets) = 1
    /\ Len(Decode(pipe.raw, pipe.info, pipe.w, pipe.h, Floors[1])) = 2
    /\ Len(Decode(pipe.raw, pipe.info, pipe.w, pipe.h, Floors[3])) = 0

\* C18 as stated: decoding a malformed raw tensor (record length other than
\* the decoder's 5 + C) publishes an empty batch and emits no detection
\* built from missing values.
C18_MalformedGivesEmpty ==
    (pipe.pc = "decoded" /\ pipe.raw.K # Stride) =>
        /\ pipe.dets = <<>>
        /\ IsEmpty(detections)

\* C20 as stated: the class chosen for an anchor is one with the maximum
\* class score of that anchor, and the lowest such index.
C20_LowestMaxClass ==
    pipe.pc = "decoded" =>
        \A k \in 1..Len(pipe.dets) :
            LET d == pipe.dets[k]
                m == MaxClassScore(pipe.raw, d.anchor)
            IN /\ d.class <= pipe.raw.K - 6
               /\ Field(pipe.raw, d.anchor, 5 + d.class) = m
               /\ \A j \in 0..(d.class - 1) :
                     RLt(Field(pipe.raw, d.anchor, 5 + j), m)

\* C21 as stated: the decoder follows the tensor's layout.  For a raw output
\* of shape [1, N, 5+C] the fields of anchor i are read at offset i*(5+C)
\* and exactly C class scores are scanned, for every N and C.
C21_FollowsLayout ==
    pipe.pc = "decoded" =>
        /\ NumClasses = pipe.raw.K - 5
        /\ \A i \in 0..(pipe.raw.N - 1), k \in 0..(pipe.raw.K - 1) :
              Read(pipe.raw.data, i * Stride + k) = Field(pipe.raw, i, k)
        /\ \A k \in 1..Len(pipe.dets) : pipe.dets[k].class < pipe.raw.K - 5

\* C22: every emitted detection carries the entry of the 80-name label table
\* at its selected class index; the index is within 0..79, so no detection
\* has a missing label.
C22_LabelFromTable ==
    pipe.pc = "decoded" =>
        /\ Len(COCO_CLASSES) = 80
        /\ \A k \in 1..Len(pipe.dets) :
              /\ pipe.dets[k].class \in 0..79
              /\ pipe.dets[k].label = COCO_CLASSES[pipe.dets[k].class + 1]
              /\ pipe.dets[k].label # "undefined"

C22_Witness ==
    /\ pipe.pc = "decoded"
    /\ pipe.raw.K = Stride
    /\ \E k \in 1..Len(pipe.dets) :
          pipe.dets[k].class = 1 /\ pipe.dets[k].label = "bicycle"

\* C23 as stated: every emitted detection has a score in [0,1], and not
\* below the confidence floor 0.25, for every raw output tensor.
C23_ScoreInUnitInterval ==
    pipe.pc = "decoded" =>
        \A k \in 1..Len(pipe.dets) :
            /\ RLe(ConfFloor, pipe.dets[k].score)
            /\ RLe(pipe.dets[k].score, R(1, 1))

\* C24 as stated: a failed model load is terminal.  After the load has
\* failed no further load is attempted, isModelLoaded stays false, and every
\* timer cycle of a running session publishes a synthetic batch.  (A cycle
\* that got no canvas context is left out.)
C24_LoadFailureTerminal ==
    [][loadPc = "failed" =>
        /\ loadPc' = "failed"
        /\ ~isModelLoaded' /\ sessionRef' = "null"
        /\ \A f \in FrameIds :
              (Dispatched(f) /\ isProcessing /\ frames'[f].out # "noctx")
              => /\ frames'[f].out = "mock"
                 /\ detections' = generateMockDetections(f)]_vars

\* C25: every synthetic batch has the same shape: two detections, 'person'
\* then 'cell phone', each with a score in [0,1] and a box with
\* 0 <= xmin < xmax <= 1 and 0 <= ymin < ymax <= 1 whatever the jitter; in
\* mock mode a dispatched cycle publishes such a batch and calls no backend.
C25_SyntheticShape ==
    [][pipe.pc = "tick" =>
        /\ pipe'.pc = "mocked"
        /\ detections' = generateMockDetections(1)
        /\ detections'.n = Len(pipe'.dets)
        /\ Len(pipe'.dets) = 2
        /\ pipe'.dets[1].label = "person"
        /\ pipe'.dets[2].label = "cell phone"
        /\ \A k \in 1..2 :
              LET d == pipe'.dets[k]
              IN /\ RLe(R(0, 1), d.score) /\ RLe(d.score, R(1, 1))
                 /\ RLe(R(0, 1), d.xmin) /\ RLt(d.xmin, d.xmax)
                 /\ RLe(d.xmax, R(1, 1))
                 /\ RLe(R(0, 1), d.ymin) /\ RLt(d.ymin, d.ymax)
                 /\ RLe(d.ymax, R(1, 1))]_vars

C25_Witness ==
    /\ pipe.pc = "mocked"
    /\ mode = "mock"
    /\ detections = generateMockDetections(1)
    /\ pipe.dets[1].ymax = R(9999, 10000)
    /\ pipe.dets[2].xmin = R(7, 10)

\* C26 as stated: startDetection does not generate mock detections.  In
\* local and remote mode the step in which startDetection completes (the
\* metadata has loaded, the timer is armed) leaves the published batch as
\* it was.
C26_StartPublishesNothing ==
    [][\A s \in StartIds :
          (mode \in {"wasm", "server"}
             /\ starts[s].pc = "awaitMeta" /\ starts'[s].pc = "done")
          => detections' = detections]_vars

\* C27: streaming replies.  A text message on an open channel that parses
\* to an object with a detections list replaces the published batch with
\* that list; a binary message, one that fails to parse and one without a
\* detections field leave the batch and the rest of the session state as
\* they were, and the channel open.
C27_StreamingReplies ==
    [][\A s \in StartIds, msg \in MsgKinds, n \in 0..MaxDet :
          WsMessage(s, msg, n) =>
             /\ sockets[s] = "OPEN" /\ sockets' = sockets /\ wsRef' = wsRef
             /\ IF msg = "detections"
                THEN detections' = WsBatch(s, n)
                ELSE detections' = detections
             /\ UNCHANGED <<mode, isProcessing, isModelLoaded, sessionRef,
                            streamRef, intervalRef, loadPc, starts, timers,
                            frames>>]_vars

C27_Witness ==
    \E s \in StartIds :
        /\ sockets[s] = "OPEN"
        /\ detections = WsBatch(s, MaxDet)

\* C28 as stated: for a session started from the idle state, every timer
\* tick between the arming of the timer and the next stopDetection passes
\* the guard at the top of processFrame.
C28_EveryTickPassesGuard ==
    [][\A f \in FrameIds :
          (Dispatched(f) /\ isProcessing
             /\ ~starts[frames'[f].timer].capProcessing)
          => frames'[f].out # "skip"]_vars

\* C29 as stated: in local mode, once the model has loaded, every cycle
\* that passes the guard and gets a canvas context runs local inference,
\* also when the load completed after startDetection was called.
C29_CurrentLoadedState ==
    [][\A f \in FrameIds :
          (Dispatched(f) /\ mode = "wasm" /\ isModelLoaded
             /\ sessionRef # "null"
             /\ frames'[f].out \notin {"skip", "noctx"})
          => frames'[f].pc = "awaitRun"]_vars

\* C30 as stated: at most one timer is armed at any time, and an armed timer
\* is the one recorded in intervalRef, so that a stopDetection leaves no
\* timer running.
C30_OneTimer ==
    [][/\ \A s \in StartIds : timers'[s] = "armed" => intervalRef' = s
       /\ Stopped => \A s \in StartIds : timers'[s] # "armed"]_vars

\* C31 as stated: wsRef keeps referring to the most recently opened channel
\* while that channel is connecting or open; the close event of another
\* channel never clears the reference.
C31_RefIsNewestChannel ==
    [][\A s, c \in StartIds :
          (/\ c # s
           /\ wsRef = s /\ sockets[s] \in {"CONNECTING", "OPEN"}
           /\ sockets[c] # "CLOSED" /\ sockets'[c] = "CLOSED")
          => wsRef' = s]_vars

\* C32 as stated: a stopDetection that runs while startDetection waits for
\* the video metadata cancels that start.  When the wait completes in a
\* stopped session, no channel is opened, no timer is armed, no batch is
\* published and the session stays stopped.
C32_StopCancelsPendingStart ==
    [][\A s \in StartIds :
          (~isProcessing /\ starts[s].pc = "awaitMeta" /\ starts'[s].pc = "done")
          => /\ sockets' = sockets /\ wsRef' = wsRef
             /\ timers' = timers /\ intervalRef' = intervalRef
             /\ detections' = detections
             /\ ~isProcessing']_vars

\* C33: startDetection called with a null stream changes nothing:
\* isProcessing, the published batch, the stream reference, the timer and
\* the streaming channel are as they were (and so is the rest of the hook's
\* state).
C33_NullStreamNoOp ==
    (pipe.pc = "returned" /\ pipe.stream = "null") =>
        /\ isProcessing = pipe.before[3]
        /\ detections = pipe.before[2]
        /\ streamRef = pipe.before[6]
        /\ intervalRef = pipe.before[8] /\ timers = pipe.before[11]
        /\ wsRef = pipe.before[7] /\ sockets = pipe.before[12]
        /\ session = pipe.before

C33_Witness ==
    /\ pipe.pc = "returned" /\ pipe.stream = "null"
    /\ isProcessing /\ intervalRef = 2 /\ timers[2] = "armed"
    /\ streamRef = "stream"

\* C34 as stated: in remote mode a channel is opened only by startDetection
\* and a closed channel is never reopened; every frame dispatched while no
\* referenced channel is open (closed, failed or still connecting) goes
\* through the one-shot HTTP path.
C34_AlwaysHttpWithoutChannel ==
    [][\A f \in FrameIds :
          (mode = "server" /\ ~ChannelOpen
             /\ frames[f].pc = "awaitBlob" /\ frames'[f].pc # "awaitBlob")
          => frames'[f].pc = "awaitFetch" /\ frames'[f].http = 1]_vars

\* C34 (amended): a channel starts connecting only in the step in which a
\* startDetection call completes, opens only from connecting, and once
\* closing or closed never connects or opens again; a frame whose JPEG blob
\* was produced while no referenced channel is open is not sent on a channel
\* and makes the one-shot request.  A frame without a blob makes no request.
C34_NoReopenThenHttp ==
    [][/\ \A s \in StartIds :
            /\ (sockets'[s] = "CONNECTING" /\ sockets[s] # "CONNECTING")
                => /\ sockets[s] = "none" /\ mode = "server"
                   /\ starts[s].pc = "awaitMeta" /\ starts'[s].pc = "done"
            /\ (sockets'[s] = "OPEN" /\ sockets[s] # "OPEN")
                => sockets[s] = "CONNECTING"
            /\ sockets[s] = "CLOSING" => sockets'[s] \in {"CLOSING", "CLOSED"}
            /\ sockets[s] = "CLOSED" => sockets'[s] = "CLOSED"
       /\ \A f \in FrameIds :
            (mode = "server" /\ ~ChannelOpen
               /\ frames[f].pc = "awaitBlob" /\ frames'[f].pc # "awaitBlob")
            => \/ frames'[f].pc = "awaitFetch" /\ frames'[f].http = 1
               \/ /\ frames'[f].pc = "done" /\ frames'[f].out = "noblob"
                  /\ frames'[f].http = 0]_vars

\* C34 witness: in one session a frame was sent on the open channel, the
\* channel has closed, and a later frame of the same timer is in its
\* one-shot request.
C34_Witness ==
    \E f, g \in FrameIds, s \in StartIds :
        /\ f < g /\ mode = "server" /\ isProcessing
        /\ frames[f].timer = s /\ frames[g].timer = s
        /\ frames[f].out = "sent"
        /\ sockets[s] = "CLOSED" /\ wsRef = 0
        /\ frames[g].pc = "awaitFetch" /\ frames[g].http = 1

\* C35: worker protocol.  For every request message (a message whose data is
\* an object) the worker posts 'running inference' first and then exactly
\* one terminal message, 'complete' or an error, and nothing after it; the
\* model instance is created at most once, also when requests overlap.
C35_WorkerProtocol ==
    worker.pc = "started" =>
        /\ worker.created <= 1
        /\ worker.instance = "model" <=> worker.created = 1
        /\ \A r \in ReqIds :
              LET q == worker.reqs[r]
              IN /\ q.pc \in {"none", "threw"} => q.posted = <<>>
                 /\ q.pc \in {"awaitInstance", "awaitRun"}
                       => q.posted = <<"running inference">>
                 /\ q.pc = "done"
                       => /\ Len(q.posted) = 2
                          /\ q.posted[1] = "running inference"
                          /\ q.posted[2] \in {"complete", "error"}

\* C35 witness: two requests overlapped (the second arrived while the first
\* was waiting) and both have completed with one instance.
C35_Witness ==
    /\ worker.pc = "started"
    /\ worker.created = 1
    /\ worker.reqs[1].posted = <<"running inference", "complete">>
    /\ worker.reqs[2].posted = <<"running inference", "complete">>
    /\ worker.reqs[3].pc = "awaitRun"

====
